---- MODULE Spec2Model ----
(***************************************************************************)
(* Model of src/app.py: the Streamlit dashboard for Meta Ads campaigns.    *)
(* One render cycle is one run of the whole script body: the memoised      *)
(* loader cargar_datos, the two early exits, the sidebar filters, the      *)
(* filter, the four KPIs, the three charts and the detail table.           *)
(*                                                                         *)
(* A DataFrame is [cols, rows]: the set of column names and the sequence   *)
(* of rows in positional order; every row carries its index label idx.     *)
(* Dates are day numbers, amounts are whole numbers, and a float is        *)
(* [k, n, d]: k = "fin" (the rational n/d in lowest terms), "inf" or "nan".*)
(***************************************************************************)
EXTENDS Integers, Sequences, FiniteSets, TLC

VARIABLES file, cache, ui, out

vars == <<file, cache, ui, out>>

----------------------------------------------------------------------------
\* Bounds of the model.

\* Largest number of rows of the files with freely chosen rows.
MaxRows == 2

\* len(px.colors.qualitative.Plotly), the palette indexed by color_sequence[i].
NumColors == 10

----------------------------------------------------------------------------
\* Column names.

DateCols == {"Inicio del informe", "Fin del informe", "Fin"}

RawCols ==
    DateCols \cup {"Nombre de la campana", "Importe gastado (BOB)", "Impresiones",
                   "Alcance", "Resultados", "Coste por resultados"}

\* The mapping of data.rename(columns={...}); a name not in it is kept.
RenameCol(c) ==
    CASE c = "Nombre de la campana"  -> "campana"
      [] c = "Importe gastado (BOB)" -> "gasto"
      [] c = "Impresiones"           -> "impresiones"
      [] c = "Alcance"               -> "alcance"
      [] c = "Resultados"            -> "resultados"
      [] c = "Coste por resultados"  -> "costo_por_resultado"
      [] OTHER                       -> c

\* The columns the detail table selects.
DetailCols ==
    {"campana", "Inicio del informe", "Fin del informe", "gasto", "resultados",
     "impresiones", "alcance", "CTR", "CPM", "costo_por_resultado"}

----------------------------------------------------------------------------
\* Floats.

Min(S) == CHOOSE x \in S : \A y \in S : x <= y
Max(S) == CHOOSE x \in S : \A y \in S : x >= y

\* The greatest common divisor of n >= 0 and d > 0.
Gcd(n, d) == Max({g \in 1..d : n % g = 0 /\ d % g = 0})

Fin(n, d) == LET g == Gcd(n, d) IN [k |-> "fin", n |-> n \div g, d |-> d \div g]
Inf == [k |-> "inf", n |-> 0, d |-> 1]
NaN == [k |-> "nan", n |-> 0, d |-> 1]

\* a / b on non-negative numbers the way pandas divides: x/0 is inf, 0/0 is nan.
FDiv(a, b) == IF b = 0 THEN (IF a = 0 THEN NaN ELSE Inf) ELSE Fin(a, b)

\* x * c for a constant c > 0.
FMul(x, c) == IF x.k = "fin" THEN Fin(x.n * c, x.d) ELSE x

FAdd(x, y) ==
    IF x.k = "nan" \/ y.k = "nan" THEN NaN
    ELSE IF x.k = "inf" \/ y.k = "inf" THEN Inf
    ELSE Fin(x.n * y.d + y.n * x.d, x.d * y.d)

FSum(s) ==
    LET acc[i \in 0..Len(s)] == IF i = 0 THEN Fin(0, 1) ELSE FAdd(acc[i - 1], s[i])
    IN  acc[Len(s)]

IsNaN(x) == x.k = "nan"
NotNaN(x) == ~IsNaN(x)

\* Series.mean(): NaN values are skipped (skipna), inf is not; no value left is nan.
Mean(s) ==
    LET v == SelectSeq(s, NotNaN)
        t == FSum(v)
    IN  IF v = <<>> THEN NaN
        ELSE IF t.k = "fin" THEN Fin(t.n, t.d * Len(v)) ELSE t

\* f"{x:.2f}": the value in hundredths, rounded to the nearest (a half goes
\* up); inf and nan print as such.
Fmt2(x) ==
    IF x.k = "fin" THEN [k |-> "fin", v |-> (200 * x.n + x.d) \div (2 * x.d)]
    ELSE [k |-> x.k, v |-> 0]

Sum(s) ==
    LET acc[i \in 0..Len(s)] == IF i = 0 THEN 0 ELSE acc[i - 1] + s[i]
    IN  acc[Len(s)]

Col(rows, c) == [i \in 1..Len(rows) |-> rows[i][c]]

Range(s) == {s[i] : i \in 1..Len(s)}

----------------------------------------------------------------------------
\* The loader.

EmptyFrame == [cols |-> {}, rows |-> <<>>]

\* DataFrame.empty: some axis has length 0.
IsEmpty(df) == df.cols = {} \/ df.rows = <<>>

\* The exception types of the except clause.
Caught == {"FileNotFoundError", "EmptyDataError", "KeyError", "ParserError"}

\* pd.read_csv(path, parse_dates=[...], encoding='utf-8'): the exception it raises.
ReadCsvExc(f) ==
    CASE f.st = "missing"      -> "FileNotFoundError"
      [] f.st = "zero_bytes"   -> "EmptyDataError"
      [] f.st = "malformed"    -> "ParserError"
      [] f.st = "bad_encoding" -> "UnicodeDecodeError"
      [] OTHER -> IF DateCols \subseteq f.cols THEN "none" ELSE "ValueError"

\* Derive with the CPM taken from the results instead of the spend.
DeriveFromResults(r, i) ==
    [idx |-> i - 1, campana |-> r.campana, inicio |-> r.inicio, fin |-> r.fin,
     gasto |-> r.gasto, resultados |-> r.resultados, impresiones |-> r.impresiones,
     CTR |-> FMul(FDiv(r.resultados, r.impresiones), 100),
     CPM |-> FMul(FDiv(r.resultados, r.impresiones), 1000)]

\* The two derived columns of one row.
Derive(r, i) ==
    [idx |-> i - 1, campana |-> r.campana, inicio |-> r.inicio, fin |-> r.fin,
     gasto |-> r.gasto, resultados |-> r.resultados, impresiones |-> r.impresiones,
     CTR |-> FMul(FDiv(r.resultados, r.impresiones), 100),
     CPM |-> FMul(FDiv(r.gasto, r.impresiones), 1000)]

\* The rows of df_clean.
CleanRows(rows) == [i \in 1..Len(rows) |-> Derive(rows[i], i)]

\* The exception of the try body, "none" when it returns df_clean.
BodyExc(f) ==
    LET cols == {RenameCol(c) : c \in f.cols} IN
    IF ReadCsvExc(f) # "none" THEN ReadCsvExc(f)
    ELSE IF ~({"resultados", "impresiones"} \subseteq cols) THEN "KeyError"
    ELSE IF "gasto" \notin cols THEN "KeyError"
    ELSE "none"

\* The body of cargar_datos on file content f: exc is the exception that
\* escapes, error whether st.error was called, df the table returned.
cargar_datos(f) ==
    LET e == BodyExc(f) IN
    IF e = "none"
    THEN [exc |-> "none", error |-> FALSE,
          df |-> [cols |-> {RenameCol(c) : c \in f.cols} \cup {"CTR", "CPM"},
                  rows |-> CleanRows(f.rows)]]
    ELSE IF e \in Caught
    THEN [exc |-> "none", error |-> TRUE, df |-> EmptyFrame]
    ELSE [exc |-> e, error |-> FALSE, df |-> EmptyFrame]

----------------------------------------------------------------------------
\* st.cache_data around cargar_datos: the function takes no argument, so the
\* key is the function alone. A returned value is stored (the empty table of
\* the except branch included, with its st.error replayed on a hit); a call
\* that raises stores nothing.

NoCache == [set |-> FALSE, res |-> [exc |-> "none", error |-> FALSE, df |-> EmptyFrame]]

CachedCall(c, f) ==
    IF c.set THEN [res |-> c.res, read |-> FALSE, cache |-> c]
    ELSE LET r == cargar_datos(f) IN
         [res |-> r, read |-> TRUE,
          cache |-> IF r.exc = "none" THEN [set |-> TRUE, res |-> r] ELSE c]

----------------------------------------------------------------------------
\* The sidebar and the filter.

\* Series.unique(): the distinct values in order of first appearance.
Unique(s) ==
    LET u[i \in 0..Len(s)] ==
            IF i = 0 THEN <<>>
            ELSE LET seen == u[i - 1]
                 IN  IF s[i] \in Range(seen) THEN seen ELSE Append(seen, s[i])
    IN  u[Len(s)]

Options(df) == Range(Unique(Col(df.rows, "campana")))

FechaLo(df) == Min(Range(Col(df.rows, "inicio")))
FechaHi(df) == Max(Range(Col(df.rows, "fin")))

\* The values of the three widgets on the first run of a session.
Defaults(df) ==
    [built |-> TRUE, campanas_seleccionadas |-> Options(df),
     fecha_min |-> FechaLo(df), fecha_max |-> FechaHi(df)]

NoUi == [built |-> FALSE, campanas_seleccionadas |-> {}, fecha_min |-> 0, fecha_max |-> 0]

\* Mask with the start date compared strictly.
MaskStrict(r, campanas_seleccionadas, fecha_min, fecha_max) ==
    /\ r.campana \in campanas_seleccionadas
    /\ r.inicio > fecha_min
    /\ r.fin <= fecha_max

\* The boolean mask of df_filtrado for one row.
Mask(r, campanas_seleccionadas, fecha_min, fecha_max) ==
    /\ r.campana \in campanas_seleccionadas
    /\ r.inicio >= fecha_min
    /\ r.fin <= fecha_max

\* df_filtrado = df[mask]: the masked rows in their positional order.
Filtrar(rows, campanas_seleccionadas, fecha_min, fecha_max) ==
    LET Keep(r) == Mask(r, campanas_seleccionadas, fecha_min, fecha_max) IN SelectSeq(rows, Keep)

----------------------------------------------------------------------------
\* sort_values(by, ascending=False) with the default kind="quicksort", which
\* is not a stable sort: every arrangement in non-increasing order of the key
\* is a possible result.

\* The arrangements of the rows of R in non-increasing order of the key.
SortDesc(R, by) ==
    LET n == Cardinality(R)
        Top(S) == {r \in S : \A q \in S : r[by] >= q[by]}
        \* ord[k]: the ways to fill the first k places, with the rows left over.
        ord[k \in 0..n] ==
            IF k = 0 THEN {[done |-> <<>>, left |-> R]}
            ELSE UNION {{[done |-> Append(p.done, t), left |-> p.left \ {t}] :
                            t \in Top(p.left)} : p \in ord[k - 1]}
    IN  {p.done : p \in ord[n]}

\* SortValues in ascending order (ascending=False forgotten).
SortValuesAscending(rows, by) ==
    {[i \in 1..Len(p) |-> p[Len(p) + 1 - i]] : p \in SortDesc(Range(rows), by)}

SortValues(rows, by) == SortDesc(Range(rows), by)

----------------------------------------------------------------------------
\* The presentation.

\* Kpis with the totals taken over the rows but the first.
KpisSkipFirst(rows) ==
    [gasto      |-> Fmt2(Fin(Sum(Col(Tail(rows), "gasto")), 1)),
     resultados |-> Sum(Col(Tail(rows), "resultados")),
     ctr        |-> Fmt2(Mean(Col(rows, "CTR"))),
     cpm        |-> Fmt2(Mean(Col(rows, "CPM")))]

\* The four st.metric values.
Kpis(rows) ==
    [gasto      |-> Fmt2(Fin(Sum(Col(rows, "gasto")), 1)),
     resultados |-> Sum(Col(rows, "resultados")),
     ctr        |-> Fmt2(Mean(Col(rows, "CTR"))),
     cpm        |-> Fmt2(Mean(Col(rows, "CPM")))]

NoKpis == [gasto |-> Fmt2(NaN), resultados |-> 0, ctr |-> Fmt2(NaN), cpm |-> Fmt2(NaN)]

\* px.scatter: one point per row.
Scatter(rows) ==
    [i \in 1..Len(rows) |->
        [idx |-> rows[i].idx, x |-> rows[i].gasto, y |-> rows[i].resultados,
         color |-> rows[i].campana, size |-> rows[i].impresiones]]

\* px.bar on the rows sorted by resultados: one entry per row.
Bar(sorted) ==
    [i \in 1..Len(sorted) |->
        [idx |-> sorted[i].idx, campana |-> sorted[i].campana,
         resultados |-> sorted[i].resultados, gasto |-> sorted[i].gasto]]

\* temp_df = df_filtrado[df_filtrado["campana"] == campana]
TempDf(rows, c) == LET Same(r) == r.campana = c IN SelectSeq(rows, Same)

\* One go.Scatter trace.
Trace(rows, c) ==
    LET t == TempDf(rows, c) IN
    [campana |-> c,
     pts |-> [i \in 1..Len(t) |->
                 [idx |-> t[i].idx, x |-> t[i].inicio, y |-> t[i].resultados]]]

\* The traces of the loop over df_filtrado["campana"].unique().
Traces(rows) ==
    LET u == Unique(Col(rows, "campana")) IN [i \in 1..Len(u) |-> Trace(rows, u[i])]

\* The loop indexes color_sequence[i]: IndexError past the palette.
TracesExc(rows) ==
    IF Len(Unique(Col(rows, "campana"))) > NumColors THEN "IndexError" ELSE "none"

----------------------------------------------------------------------------
\* One render cycle: the script body from df = cargar_datos() to the end.

Blank ==
    [ran |-> FALSE, exc |-> "none", error |-> FALSE, warning |-> "none",
     controls |-> FALSE, read |-> FALSE, df |-> EmptyFrame, df_filtrado |-> <<>>,
     shown |-> {}, kpis |-> NoKpis, chart1 |-> <<>>, chart2 |-> <<>>,
     chart3 |-> <<>>, tabla |-> <<>>]

\* The script up to the second early exit, on the outcome l of the call of
\* cargar_datos; w holds the widgets' session values and fresh says that the
\* session has none yet (the defaults apply).
\* stop: the cycle ended (an exception or st.stop()) before the KPIs.
Head_(l, w, fresh) ==
    LET df == l.res.df
        o0 == [Blank EXCEPT !.ran = TRUE, !.read = l.read, !.error = l.res.error]
    IN  IF l.res.exc # "none"
        THEN [cache |-> l.cache, ui |-> NoUi, stop |-> TRUE,
              out |-> [o0 EXCEPT !.exc = l.res.exc]]
        ELSE IF IsEmpty(df)
        THEN [cache |-> l.cache, ui |-> NoUi, stop |-> TRUE,
              out |-> [o0 EXCEPT !.df = df, !.warning = "no_data"]]
        ELSE IF "campana" \notin df.cols
        THEN [cache |-> l.cache, ui |-> NoUi, stop |-> TRUE,
              out |-> [o0 EXCEPT !.df = df, !.exc = "KeyError"]]
        ELSE LET v  == IF fresh THEN Defaults(df) ELSE w
                 fl == Filtrar(df.rows, v.campanas_seleccionadas, v.fecha_min, v.fecha_max)
                 o1 == [o0 EXCEPT !.df = df, !.controls = TRUE, !.df_filtrado = fl]
             IN  IF fl = <<>>
                 THEN [cache |-> l.cache, ui |-> v, stop |-> TRUE,
                       out |-> [o1 EXCEPT !.warning = "no_rows"]]
                 ELSE [cache |-> l.cache, ui |-> v, stop |-> FALSE, out |-> o1]

\* What the script computes from df_filtrado without sorting it.
Unsorted(fl) ==
    [kpis |-> Kpis(fl), chart1 |-> Scatter(fl), chart3 |-> Traces(fl),
     exc3 |-> TracesExc(fl)]

\* The script from the KPIs to the detail table, on the output o of the first
\* part; u is Unsorted(o.df_filtrado), byRes and byGasto are the results of the
\* two sort_values calls. An exception ends the cycle where it is raised:
\* px.scatter on a missing hover column, the palette index, the column
\* selection of the detail table.
Tail_(o, u, byRes, byGasto) ==
    LET o1 == [o EXCEPT !.kpis = u.kpis, !.shown = {"kpis"}]
        o2 == [o1 EXCEPT !.chart1 = u.chart1, !.shown = @ \cup {"chart1"}]
        o3 == [o2 EXCEPT !.chart2 = Bar(byRes), !.shown = @ \cup {"chart2"}]
        o4 == [o3 EXCEPT !.chart3 = u.chart3, !.shown = @ \cup {"chart3"}]
        o5 == [o4 EXCEPT !.tabla = byGasto, !.shown = @ \cup {"tabla"}]
    IN  IF "costo_por_resultado" \notin o.df.cols THEN [o1 EXCEPT !.exc = "ValueError"]
        ELSE IF u.exc3 # "none" THEN [o3 EXCEPT !.exc = u.exc3]
        ELSE IF ~(DetailCols \subseteq o.df.cols) THEN [o4 EXCEPT !.exc = "KeyError"]
        ELSE o5

\* The whole cycle as a step.
Cycle(w, fresh) ==
    \E l \in {CachedCall(cache, file)} :
    \E h \in {Head_(l, w, fresh)} :
    /\ cache' = h.cache
    /\ ui' = h.ui
    /\ IF h.stop
       THEN out' = h.out
       ELSE \E u \in {Unsorted(h.out.df_filtrado)} :
            \E byRes \in SortValues(h.out.df_filtrado, "resultados"),
               byGasto \in SortValues(h.out.df_filtrado, "gasto") :
                out' = Tail_(h.out, u, byRes, byGasto)
    /\ UNCHANGED file

----------------------------------------------------------------------------
\* The user's operations; each one re-runs the script.

\* A browser session opens the page: the widgets take their defaults.
NewSession == Cycle(NoUi, TRUE)

\* The user adds a campaign to, or removes it from, the multiselect.
ToggleCampana ==
    /\ ui.built
    /\ \E c \in Options(cache.res.df) :
          Cycle([ui EXCEPT !.campanas_seleccionadas =
                               IF c \in @ THEN @ \ {c} ELSE @ \cup {c}], FALSE)

\* The user picks another start date between the widget's bounds.
SetFechaInicial ==
    /\ ui.built
    /\ \E d \in FechaLo(cache.res.df)..FechaHi(cache.res.df) :
          d # ui.fecha_min /\ Cycle([ui EXCEPT !.fecha_min = d], FALSE)

\* The user picks another end date between the widget's bounds.
SetFechaFinal ==
    /\ ui.built
    /\ \E d \in FechaLo(cache.res.df)..FechaHi(cache.res.df) :
          d # ui.fecha_max /\ Cycle([ui EXCEPT !.fecha_max = d], FALSE)

----------------------------------------------------------------------------
\* The contents of the CSV file.

Campanas == {1, 2}

\* <<Inicio del informe, Fin del informe>> of a row: a report of two days and
\* a report of one day.
Periodos == {<<1, 2>>, <<2, 2>>}

\* <<gasto, resultados, impresiones>> of a row: two rows with impressions, one
\* with results but no impression, one with nothing at all.
Medidas == {<<100, 10, 30>>, <<50, 5, 30>>, <<50, 5, 0>>, <<0, 0, 0>>}

RawRows ==
    {[campana |-> c, inicio |-> p[1], fin |-> p[2], gasto |-> m[1],
      resultados |-> m[2], impresiones |-> m[3]] :
        c \in Campanas, p \in Periodos, m \in Medidas}

RowSeqs(n) == UNION {[1..k -> RawRows] : k \in 0..n}

\* A file that is absent, empty, not tabular or not UTF-8.
BrokenFiles ==
    {[st |-> s, cols |-> {}, rows |-> <<>>] :
        s \in {"missing", "zero_bytes", "malformed", "bad_encoding"}}

\* A well-formed export with all nine columns.
FullFiles == {[st |-> "ok", cols |-> RawCols, rows |-> r] : r \in RowSeqs(MaxRows)}

\* An export that lacks one of the nine columns.
ShortFiles ==
    {[st |-> "ok", cols |-> RawCols \ {c}, rows |-> r] : c \in RawCols, r \in RowSeqs(1)}

\* An export of n campaigns, one row each, the campaigns numbered from 11.
WideFile(n) ==
    [st |-> "ok", cols |-> RawCols,
     rows |-> [i \in 1..n |->
                 [campana |-> 10 + i, inicio |-> 1, fin |-> 1, gasto |-> 10 * i,
                  resultados |-> i, impresiones |-> 30]]]

\* As many campaigns as the palette has colours, and one more.
WideFiles == {WideFile(NumColors), WideFile(NumColors + 1)}

Files == BrokenFiles \cup FullFiles \cup ShortFiles \cup WideFiles

----------------------------------------------------------------------------
\* The dashboard over a file that does not change.

Init ==
    /\ file \in Files
    /\ cache = NoCache
    /\ ui = NoUi
    /\ out = Blank

Next == NewSession \/ ToggleCampana \/ SetFechaInicial \/ SetFechaFinal

Spec == Init /\ [][Next]_vars

----------------------------------------------------------------------------
\* The dashboard over a file that is replaced between render cycles.

\* The files of this specification: the broken ones and exports of at most one row.
CacheFiles ==
    BrokenFiles \cup {[st |-> "ok", cols |-> RawCols, rows |-> r] : r \in RowSeqs(1)}

\* The CSV file is created, replaced or removed on disk.
WriteFile ==
    /\ \E f \in CacheFiles : f # file /\ file' = f
    /\ UNCHANGED <<cache, ui, out>>

InitCache ==
    /\ file \in CacheFiles
    /\ cache = NoCache
    /\ ui = NoUi
    /\ out = Blank

NextCache == NewSession \/ ToggleCampana \/ SetFechaInicial \/ SetFechaFinal \/ WriteFile

SpecCache == InitCache /\ [][NextCache]_vars

----------------------------------------------------------------------------
\* Vocabulary of the properties.

\* The five outputs that follow the filter.
Outputs == {"kpis", "chart1", "chart2", "chart3", "tabla"}

\* The filter predicate of the specification on a row, for the widgets' values.
Selected(r) ==
    /\ r.campana \in ui.campanas_seleccionadas
    /\ r.inicio >= ui.fecha_min
    /\ r.fin <= ui.fecha_max

\* The filter ran in the last cycle and kept something.
Filtered == out.controls /\ out.df_filtrado # <<>>

\* The sum of a field over the rows of a set.
RECURSIVE SumOf(_, _)
SumOf(S, field) ==
    IF S = {} THEN 0
    ELSE LET r == CHOOSE r \in S : TRUE IN r[field] + SumOf(S \ {r}, field)

\* A sequence holds each of its elements once.
NoRepeat(s) == Cardinality(Range(s)) = Len(s)

\* The rows of s are in non-increasing order of a field.
Descending(s, field) == \A i, j \in 1..Len(s) : i < j => s[i][field] >= s[j][field]

\* Position of a row in a sequence that holds it.
Pos(s, r) == CHOOSE i \in 1..Len(s) : s[i] = r

----------------------------------------------------------------------------
\* C1: the filtered view holds exactly the rows of the cleaned table whose
\* campaign is selected, whose report start is on or after the selected start
\* and whose report end is on or before the selected end, each once and no other.
C1_FilterExact ==
    out.controls =>
        /\ \A r \in Range(out.df.rows) : (r \in Range(out.df_filtrado)) <=> Selected(r)
        /\ Range(out.df_filtrado) \subseteq Range(out.df.rows)
        /\ NoRepeat(out.df_filtrado)

\* A cycle whose filter kept a row and dropped another one of a selected
\* campaign, that is, on its dates.
C1_Witness ==
    /\ Filtered
    /\ \E r \in Range(out.df.rows) :
          r.campana \in ui.campanas_seleccionadas /\ r \notin Range(out.df_filtrado)

----------------------------------------------------------------------------
\* C5: after a successful load every row of the cleaned table has
\* CTR = resultados / impresiones * 100 and CPM = gasto / impresiones * 1000 of
\* the same row of the file; with impresiones = 0 both are non-finite (inf or
\* nan) and the load succeeds all the same; no row of the file is dropped.
C5_DerivedFields ==
    (cache.set /\ ~cache.res.error) =>
        LET rows == cache.res.df.rows IN
        /\ Len(rows) = Len(file.rows)
        /\ \A i \in 1..Len(rows) :
              LET src == file.rows[i]
                  r   == rows[i]
              IN  /\ r.gasto = src.gasto
                  /\ r.resultados = src.resultados
                  /\ r.impresiones = src.impresiones
                  /\ IF src.impresiones = 0
                     THEN r.CTR.k \in {"inf", "nan"} /\ r.CPM.k \in {"inf", "nan"}
                     ELSE /\ r.CTR.k = "fin"
                          /\ r.CTR.n * src.impresiones = r.CTR.d * src.resultados * 100
                          /\ r.CPM.k = "fin"
                          /\ r.CPM.n * src.impresiones = r.CPM.d * src.gasto * 1000

\* A loaded table with a row without impressions next to one with impressions
\* whose CTR is not a whole number.
C5_Witness ==
    /\ cache.set
    /\ ~cache.res.error
    /\ \E r \in Range(cache.res.df.rows) : r.impresiones = 0 /\ r.CTR.k = "inf"
    /\ \E r \in Range(cache.res.df.rows) : r.impresiones > 0 /\ r.CTR.d > 1

----------------------------------------------------------------------------
\* C7: the total-spend KPI is the sum of gasto, and the total-results KPI the
\* sum of resultados, over exactly the rows of the cleaned table that satisfy
\* the filter predicate.
C7_Totals ==
    ("kpis" \in out.shown) =>
        LET S == {r \in Range(out.df.rows) : Selected(r)} IN
        /\ out.kpis.gasto = [k |-> "fin", v |-> 100 * SumOf(S, "gasto")]
        /\ out.kpis.resultados = SumOf(S, "resultados")

\* Spends 100 and 50 with results 10 and 5 selected, a third row left out:
\* 150.00 and 15.
C7_Witness ==
    /\ "kpis" \in out.shown
    /\ Len(out.df_filtrado) = 2
    /\ Len(out.df.rows) > 2
    /\ out.kpis.gasto = [k |-> "fin", v |-> 15000]
    /\ out.kpis.resultados = 15

----------------------------------------------------------------------------
\* C4 as stated: the detail listing holds every filtered row once, in
\* non-increasing order of gasto, and rows of equal gasto keep the relative
\* order they have in the filtered subset.
C4_StableDescending ==
    ("tabla" \in out.shown) =>
        /\ Range(out.tabla) = Range(out.df_filtrado)
        /\ NoRepeat(out.tabla)
        /\ Descending(out.tabla, "gasto")
        /\ \A a, b \in Range(out.df_filtrado) :
              (a.gasto = b.gasto /\ Pos(out.df_filtrado, a) < Pos(out.df_filtrado, b))
                  => Pos(out.tabla, a) < Pos(out.tabla, b)

\* C4 as amended: the detail listing holds every filtered row once, in
\* non-increasing order of gasto; the order of rows of equal gasto is not fixed.
C4_Descending ==
    ("tabla" \in out.shown) =>
        /\ Range(out.tabla) = Range(out.df_filtrado)
        /\ NoRepeat(out.tabla)
        /\ Len(out.tabla) = Len(out.df_filtrado)
        /\ Descending(out.tabla, "gasto")

\* A detail listing that moved a row: the filtered subset is in another order.
C4_Witness ==
    /\ "tabla" \in out.shown
    /\ out.tabla # out.df_filtrado
    /\ \E i \in 1..(Len(out.tabla) - 1) : out.tabla[i].gasto > out.tabla[i + 1].gasto

----------------------------------------------------------------------------
\* One of the four load failure conditions: the file is not found, has no
\* row, lacks a required column or is not parseable as a table.
LoadFailure(f) ==
    \/ f.st \in {"missing", "zero_bytes", "malformed"}
    \/ f.st = "ok" /\ (f.rows = <<>> \/ ~(RawCols \subseteq f.cols))

\* C2: under each load failure condition the cycle ends with an empty table
\* and a message on the page (the loader's error or the warning that follows
\* it), and with no exception.
C2_LoadFailuresHandled ==
    (out.ran /\ LoadFailure(file)) =>
        /\ out.exc = "none"
        /\ IsEmpty(out.df)
        /\ (out.error \/ out.warning = "no_data")

----------------------------------------------------------------------------
\* C3: a cycle produces the KPIs, the three charts and the detail table all
\* together, exactly when the cleaned table and the filtered subset are both
\* non-empty; an empty table gives a warning and no filter control, an empty
\* filtered subset gives a warning, and neither gives any of the five outputs.
C3_AllOrNothing ==
    out.ran =>
        /\ out.shown \in {{}, Outputs}
        /\ (out.shown = Outputs) <=> (~IsEmpty(out.df) /\ out.df_filtrado # <<>>)
        /\ (out.exc = "none" /\ IsEmpty(out.df))
              => (out.warning = "no_data" /\ ~out.controls)
        /\ (out.controls /\ out.df_filtrado = <<>>) => out.warning = "no_rows"

----------------------------------------------------------------------------
\* C6: when a filtered row has impresiones > 0, the displayed mean CTR and
\* mean CPM are finite, whatever rows with impresiones = 0 are filtered with it.
C6_MeansFinite ==
    ("kpis" \in out.shown /\ \E r \in Range(out.df_filtrado) : r.impresiones > 0)
        => (out.kpis.ctr.k = "fin" /\ out.kpis.cpm.k = "fin")

----------------------------------------------------------------------------
\* C8: every render cycle uses the table built from the file as it is at that
\* cycle, and does not read the file when the table it holds was built from
\* that content.
C8_CacheFollowsFile ==
    [][file' = file =>
          /\ out'.df = cargar_datos(file).df
          /\ out'.exc = cargar_datos(file).exc
          /\ (cache.set /\ cache.res = cargar_datos(file)) => ~out'.read]_vars

----------------------------------------------------------------------------
\* C9: the comparison chart has one entry per distinct campaign of the
\* filtered subset, holding that campaign's totals of resultados and gasto,
\* the entries in non-increasing order of total resultados.
C9_GroupedTotals ==
    ("chart2" \in out.shown) =>
        LET Of(c) == {r \in Range(out.df_filtrado) : r.campana = c} IN
        /\ Len(out.chart2) = Cardinality({r.campana : r \in Range(out.df_filtrado)})
        /\ \A i \in 1..Len(out.chart2) :
              /\ out.chart2[i].resultados = SumOf(Of(out.chart2[i].campana), "resultados")
              /\ out.chart2[i].gasto = SumOf(Of(out.chart2[i].campana), "gasto")
        /\ Descending(out.chart2, "resultados")

----------------------------------------------------------------------------
\* C10: for a non-empty filtered subset the loop that builds the series does
\* not fail, there is one series per distinct campaign, each with exactly the
\* filtered rows of its campaign, its points in non-decreasing order of
\* report start.
C10_SeriesChronological ==
    /\ Filtered => out.exc # "IndexError"
    /\ ("chart3" \in out.shown) =>
          /\ {t.campana : t \in Range(out.chart3)} = {r.campana : r \in Range(out.df_filtrado)}
          /\ Len(out.chart3) = Cardinality({r.campana : r \in Range(out.df_filtrado)})
          /\ \A t \in Range(out.chart3) :
                /\ {q.idx : q \in Range(t.pts)} =
                       {r.idx : r \in {r \in Range(out.df_filtrado) : r.campana = t.campana}}
                /\ NoRepeat(t.pts)
                /\ \A i, j \in 1..Len(t.pts) : i < j => t.pts[i].x <= t.pts[j].x

----------------------------------------------------------------------------
\* C10: a cycle that ends at the eleventh campaign of the loop, the palette
\* exhausted, after the KPIs and two charts.
C10_SeenIndexError == out.exc = "IndexError" /\ out.shown = {"kpis", "chart1", "chart2"}

\* C3: a cycle that ends at the detail table, a column of it absent, after the
\* KPIs and the three charts.
C3_SeenPartial == out.exc = "KeyError" /\ out.shown = Outputs \ {"tabla"}

====
